---- MODULE Spec2Model ----
(***************************************************************************)
(* Incremental Gmail -> warehouse sync.                                    *)
(*                                                                         *)
(* Two entry points are modelled:                                          *)
(*   "append": bq_loader.main      (cursor = MAX(date) of the table,       *)
(*                                  WRITE_APPEND load job)                 *)
(*   "merge" : gmail_pipeline.main (cursor = dlt incremental last_value,   *)
(*                                  write_disposition merge on key id,     *)
(*                                  frozen schema contract)                *)
(* Instants are counted in slots of 1/SlotsPerDay day since the epoch      *)
(* 2026-02-23T00:00 (the merge variant's initial_value); all clocks are    *)
(* taken to be in one time zone.                                           *)
(***************************************************************************)
EXTENDS Integers, Sequences, FiniteSets, Bags, TLC

(* ------------------------------ bounds -------------------------------- *)
SlotsPerDay == 2
MaxRuns == 2
MaxSeqRuns == 3
MaxMsgs == 2
MaxTicks == 1
MaxSkewDays == 1
MaxListLen == 3
StartDay == 8

(* ------------------------- program constants -------------------------- *)
days_back == 5
EpochYear == 2026
EpochMonth == 2
EpochDom == 23
None == -1

MsgIds == 1..MaxMsgs

(* --------------------------- the calendar ----------------------------- *)
IsLeap(y) == (y % 4 = 0 /\ y % 100 # 0) \/ (y % 400 = 0)

DaysInMonth(y, m) ==
    IF m = 2 THEN (IF IsLeap(y) THEN 29 ELSE 28)
    ELSE IF m \in {4, 6, 9, 11} THEN 30 ELSE 31

NextDate(ymd) ==
    LET y == ymd[1]
        m == ymd[2]
        d == ymd[3]
    IN  IF d < DaysInMonth(y, m) THEN <<y, m, d + 1>>
        ELSE IF m < 12 THEN <<y, m + 1, 1>>
        ELSE <<y + 1, 1, 1>>

EpochDate == <<EpochYear, EpochMonth, EpochDom>>

RECURSIVE DateOfDay(_)
DateOfDay(n) == IF n <= 0 THEN EpochDate ELSE NextDate(DateOfDay(n - 1))

DayOf(t) == t \div SlotsPerDay

\* datetime.strftime('%Y/%m/%d'): the calendar date of the instant, the time
\* of day dropped; the text YYYY/MM/DD is kept as the triple <<Y, M, D>>.
strftime(t) == DateOfDay(DayOf(t))

\* t + timedelta(days = n)
timedelta(t, n) == t + n * SlotsPerDay

DateLess(a, b) ==
    \/ a[1] < b[1]
    \/ a[1] = b[1] /\ a[2] < b[2]
    \/ a[1] = b[1] /\ a[2] = b[2] /\ a[3] < b[3]

DateLeq(a, b) == a = b \/ DateLess(a, b)

Max(S) == CHOOSE x \in S : \A y \in S : y <= x

(* ------------------------- date texts --------------------------------- *)
\* The provider hands out `date` as text: the ISO rendering of an instant,
\* or the raw header when it could not be parsed. NoText is the absence of
\* an incremental state.
IsoText(t) == [k |-> "iso", t |-> t]
RawText == [k |-> "raw", t |-> 0]
NoText == [k |-> "none", t |-> 0]

\* "2026-02-23T00:00:00Z"
initial_value == IsoText(0)

\* datetime.fromisoformat(s.replace('Z', '+00:00')); ValueError leaves the
\* caller's query_start_date at None.
fromisoformat(s) == IF s.k = "iso" THEN s.t ELSE None

(* ------------------------------ state --------------------------------- *)
VARIABLES
    policy,     \* which entry point is deployed: "append" or "merge"
    projectId,  \* whether the PROJECT_ID environment value is set
    now,        \* the wall clock, in slots
    mailbox,    \* the provider's messages: [id, at, date]
    table,      \* the destination table: a bag of rows [id, date]
    state,      \* the merge variant's incremental state (NoText: no state yet)
    runs,       \* one record per run of the entry point
    norm,       \* a labels / cc / bcc value and what normalization made of it
    cred        \* the last credential resolution: what it found, what it returned

vars == <<policy, projectId, now, mailbox, table, state, runs, norm, cred>>

\* The clock starts in the last slot of day StartDay.
StartNow == StartDay * SlotsPerDay + (SlotsPerDay - 1)

\* What the Date header of a message received at instant t can turn into:
\* its instant, an instant up to MaxSkewDays later (the sender's clock), or
\* text that no date parser accepts.
DatesAt(t) == {RawText} \cup {IsoText(timedelta(t, k)) : k \in 0..MaxSkewDays}

Message(i, t, d) == [id |-> i, at |-> t, date |-> d]

\* Messages the mailbox may hold before the first run.
OldTimes == {timedelta(StartNow, 0 - days_back), (StartDay - 2) * SlotsPerDay}

NoQuery == [after |-> <<0, 0, 0>>, before |-> <<0, 0, 0>>]

IdleRun ==
    [pc |-> "idle", last |-> NoText, cur |-> None, qok |-> TRUE,
     readNo |-> 0, end_date |-> None, q |-> NoQuery, batch |-> {}, rows |-> {},
     job |-> "none", with |-> {}, log |-> <<>>, calls |-> {},
     error |-> "none"]

(* --------------------- labels, cc and bcc values ---------------------- *)
\* An element of a list is a string or some other object (a number here).
StrItem(s) == [t |-> "str", s |-> s, n |-> 0]
IntItem(n) == [t |-> "int", s |-> "", n |-> n]
Items == {StrItem("a@x.org"), StrItem("INBOX"), IntItem(7)}

\* str(item)
str(item) == IF item.t = "str" THEN item.s ELSE ToString(item.n)

RECURSIVE SeqsUpTo(_)
SeqsUpTo(n) ==
    IF n = 0 THEN {<<>>}
    ELSE LET shorter == SeqsUpTo(n - 1)
         IN  shorter \cup {Append(xs, x) : xs \in shorter, x \in Items}

\* A source value: None, a scalar that is no list or tuple, a list, a tuple.
NoneValue == [t |-> "none", x |-> IntItem(0), xs |-> <<>>]
Scalar(x) == [t |-> "scalar", x |-> x, xs |-> <<>>]
Sequence(t, xs) == [t |-> t, x |-> IntItem(0), xs |-> xs]

SourceValues ==
    {NoneValue} \cup {Scalar(x) : x \in Items}
        \cup {Sequence(t, xs) : t \in {"list", "tuple"}, xs \in SeqsUpTo(MaxListLen)}

\* A normalized value: a list of strings, one string, or null.
ListOut(l) == [k |-> "list", l |-> l, s |-> ""]
TextOut(s) == [k |-> "text", l |-> <<>>, s |-> s]
NullOut == [k |-> "null", l |-> <<>>, s |-> ""]
NotNormalized == [k |-> "not yet", l |-> <<>>, s |-> ""]

isinstance_list_tuple(v) == v.t \in {"list", "tuple"}

\* [str(item) for item in x]
strs(xs) == [i \in 1..Len(xs) |-> str(xs[i])]

\* sep.join(ss)
RECURSIVE join(_, _)
join(sep, ss) ==
    IF Len(ss) = 0 THEN ""
    ELSE IF Len(ss) = 1 THEN ss[1]
    ELSE ss[1] \o sep \o join(sep, Tail(ss))

\* bq_loader: [str(item) for item in x] if isinstance(x, (list, tuple)) else []
normalize_append(v) ==
    IF isinstance_list_tuple(v) THEN ListOut(strs(v.xs)) ELSE ListOut(<<>>)

\* A merge normalizer that turns None into the empty string.
normalize_merge_blank(v) ==
    IF isinstance_list_tuple(v) THEN TextOut(join(", ", strs(v.xs)))
    ELSE IF v.t # "none" THEN TextOut(str(v.x))
    ELSE TextOut("")

\* gmail_pipeline: ", ".join([str(item) for item in x])
\*                 if isinstance(x, (list, tuple)) else str(x) if x is not None else None
normalize_merge(v) ==
    IF isinstance_list_tuple(v) THEN TextOut(join(", ", strs(v.xs)))
    ELSE IF v.t # "none" THEN TextOut(str(v.x))
    ELSE NullOut

NoNorm == [raw |-> NoneValue, path |-> "none", out |-> NotNormalized]

(* ----------------------- credential resolution ------------------------ *)
\* What one call of setup_credentials_files met: whether each secret could be
\* retrieved, whether each temporary file could be written, whether each
\* local file exists.
CredInputs ==
    [token : BOOLEAN, client : BOOLEAN, writeToken : BOOLEAN,
     writeClient : BOOLEAN, localClient : BOOLEAN, localToken : BOOLEAN]

NoCred == [seen |-> FALSE,
           in |-> [token |-> FALSE, client |-> FALSE, writeToken |-> FALSE,
                   writeClient |-> FALSE, localClient |-> FALSE, localToken |-> FALSE],
           out |-> <<>>]

InitWith(n) ==
    /\ norm = NoNorm
    /\ cred = NoCred
    /\ policy \in {"append", "merge"}
    /\ projectId \in BOOLEAN
    /\ now = StartNow
    /\ mailbox \in {{}} \cup UNION {{{Message(1, t, d)} : d \in DatesAt(t)} : t \in OldTimes}
    /\ table = EmptyBag
    /\ state = NoText
    /\ runs = [r \in 1..n |-> IdleRun]

\* Up to MaxRuns runs, which may overlap in time.
Init == InitWith(MaxRuns)

\* Up to MaxSeqRuns runs, one after the other.
InitSeq == InitWith(MaxSeqRuns)

Runs == DOMAIN runs

Active(r) == runs[r].pc \notin {"idle", "done", "failed"}

Set(r, rec) == runs' = [runs EXCEPT ![r] = rec]

(* --------------------------- environment ------------------------------ *)
Tick ==
    /\ now < StartNow + MaxTicks
    /\ now' = now + 1
    /\ UNCHANGED <<cred, norm, policy, projectId, mailbox, table, state, runs>>

Arrive ==
    /\ Cardinality(mailbox) < MaxMsgs
    /\ \E d \in DatesAt(now) :
         mailbox' = mailbox \cup {Message(Cardinality(mailbox) + 1, now, d)}
    /\ UNCHANGED <<cred, norm, policy, projectId, now, table, state, runs>>

(* ------------------------ the pipeline's functions -------------------- *)
\* A date range that always starts days_back days ago, cursor or not.
query_params_lookback_only(start_date, end_date) ==
    [after  |-> strftime(timedelta(end_date, 0 - days_back)),
     before |-> strftime(timedelta(end_date, 1))]

\* A date range whose end is the clock's day itself.
query_params_no_margin(start_date, end_date) ==
    LET query_start_date ==
            IF start_date # None THEN start_date
            ELSE timedelta(end_date, 0 - days_back)
    IN  [after  |-> strftime(query_start_date),
         before |-> strftime(end_date)]

\* A date range that has no start when there is no cursor.
query_params_no_default(start_date, end_date) ==
    [after  |-> IF start_date # None THEN strftime(start_date) ELSE <<0, 0, 0>>,
     before |-> strftime(timedelta(end_date, 1))]

\* The date range of fetch_emails / fetch_gmail_resource: start_date is the
\* resolved cursor (None: none), end_date the clock.
query_params(start_date, end_date) ==
    LET query_start_date ==
            IF start_date # None THEN start_date
            ELSE timedelta(end_date, 0 - days_back)
    IN  [after  |-> strftime(query_start_date),
         before |-> strftime(timedelta(end_date, 1))]

\* The provider's answer: the messages received on a day d with
\* after <= d < before.
get_messages(box, q) ==
    {m \in box : DateLeq(q.after, strftime(m.at)) /\ DateLess(strftime(m.at), q.before)}

\* email_data: one flat record per message.
email_data(messages) == {[id |-> m.id, date |-> m.date] : m \in messages}

RowDates(tbl) == {row.date : row \in BagToSet(tbl)}

Min(S) == CHOOSE x \in S : \A y \in S : x <= y

\* SELECT MIN(date) in place of MAX(date).
get_min_date_from_bq(tbl, queryOk) ==
    IF queryOk /\ RowDates(tbl) # {} THEN Min(RowDates(tbl)) ELSE None

\* A cursor query that answers its own failure with the epoch.
get_max_date_or_epoch(tbl, queryOk) ==
    IF queryOk /\ RowDates(tbl) # {} THEN Max(RowDates(tbl)) ELSE 0

\* SELECT MAX(date): NULL on an empty table; any failure of the query
\* (the table may not exist yet) is swallowed and gives None.
get_max_date_from_bq(tbl, queryOk) ==
    IF queryOk /\ RowDates(tbl) # {} THEN Max(RowDates(tbl)) ELSE None

\* errors = 'coerce': nothing raises.
to_datetime_coerces(df) == FALSE

\* pd.to_datetime(df['date'], utc=True): every text must parse, else it raises.
to_datetime_raises(df) == \E rec \in df : rec.date.k # "iso"

\* A text that is no timestamp has no instant (NaT, null).
to_datetime(df) == {[id |-> rec.id, date |-> fromisoformat(rec.date)] : rec \in df}

\* start_date.last_value: the last successfully loaded date, or initial_value
\* when there is no state.
last_value(st) == IF st.k = "none" THEN initial_value ELSE st

\* dlt.sources.incremental("date"): rows older than last_value are not passed on.
incremental_filter(df, last) ==
    {rec \in df : rec.date.k # "iso" \/ last.k # "iso" \/ rec.date.t >= last.t}

\* A contract that lets every row through.
contract_not_enforced(df) == FALSE

\* schema_contract = "freeze" with id and date not nullable, date a timestamp.
contract_violated(df) == \E rec \in df : rec.date.k # "iso"

\* The incremental state after a load of df: the greatest date loaded so far.
advance_state(st, rows) ==
    IsoText(Max({row.date : row \in rows} \cup {last_value(st).t}))

\* A load that skips the rows the table already holds.
write_append_skipping(tbl, rows) == tbl (+) SetToBag(rows \ BagToSet(tbl))

\* WRITE_APPEND: every row of the job becomes a new row.
write_append(tbl, rows) == tbl (+) SetToBag(rows)

\* A merge that forgets the primary key.
write_merge_keyless(tbl, rows) == tbl (+) SetToBag(rows)

\* write_disposition = "merge", primary_key = "id": rows of the table with an
\* incoming id are replaced.
write_merge(tbl, rows) ==
    LET ids  == {row.id : row \in rows}
        kept == {row \in BagToSet(tbl) : row.id \notin ids}
    IN  [row \in kept |-> tbl[row]] (+) SetToBag(rows)

(* ------------------------------ a run --------------------------------- *)
\* A run that loads whatever came back, an empty frame too.
after_fetch_always_loads(df) == "load"

\* Where a run goes once the provider has answered: an empty frame ends it.
after_fetch(df) == IF df = {} THEN "done" ELSE "load"

\* A run that does not wait for its job.
job_not_awaited(job) == TRUE

\* job.result(): returns (or raises) only once the job has ended.
job_ended(job) == job \in {"ok", "error"}

ReadsSoFar == Cardinality({r \in Runs : runs[r].readNo > 0})

\* Every stage in bq_loader's order, whichever entry point runs.
stage_order_credentials_first(p) ==
    <<"creds", "cursor", "extract", "normalize", "commit">>

\* The stages of a run in the order its entry point goes through them.
\* bq_loader.main: credentials, MAX(date), fetch, load_to_bigquery (which
\* normalizes and then submits the load job). gmail_pipeline: the resource
\* reads start_date.last_value first and resolves the credentials after it.
stage_order(p) ==
    IF p = "append" THEN <<"creds", "cursor", "extract", "normalize", "commit">>
    ELSE <<"cursor", "creds", "extract", "normalize", "commit">>

stage_after(p, s) ==
    LET order == stage_order(p)
        i == CHOOSE k \in 1..Len(order) : order[k] = s
    IN  order[i + 1]

\* main() is entered. bq_loader returns at once when PROJECT_ID is not set;
\* gmail_pipeline picks its destination and starts the resource, whose first
\* statement reads the incremental cursor.
StartRun(r) ==
    /\ runs[r].pc = "idle"
    /\ \A o \in Runs : o < r => runs[o].pc # "idle"
    /\ LET started == [runs[r] EXCEPT !.with = {o \in Runs : Active(o)}]
           first   == Head(stage_order(policy))
       IN  IF policy = "append"
           THEN Set(r, [started EXCEPT !.pc = IF projectId THEN first ELSE "done"])
           ELSE Set(r, [started EXCEPT !.pc = first])
    /\ UNCHANGED <<cred, norm, policy, projectId, now, mailbox, table, state>>

\* A gmail_pipeline that asks Secret Manager with or without PROJECT_ID.
secret_requested_always(p, project) == TRUE

\* Whether access_secret_version sends a request: gmail_pipeline raises
\* ValueError before it creates the client when PROJECT_ID is not set;
\* bq_loader has no such test (its main() has returned before).
secret_requested(p, project) == p = "append" \/ project

\* A resolver that is content with one of the two local files.
setup_credentials_files_either(project, in) ==
    IF project /\ in.token /\ in.client /\ in.writeToken /\ in.writeClient
    THEN <<"/tmp/client_secret.json", "/tmp/gmail_token.json">>
    ELSE IF in.localClient \/ in.localToken
    THEN <<"client_secret.json", "gmail_token.json">>
    ELSE <<"FileNotFoundError">>

\* A resolver that keeps the secret it got when the other one failed.
setup_credentials_files_piecewise(project, in) ==
    LET client == IF project /\ in.client /\ in.writeClient
                  THEN "/tmp/client_secret.json" ELSE "client_secret.json"
        token  == IF project /\ in.token /\ in.writeToken
                  THEN "/tmp/gmail_token.json" ELSE "gmail_token.json"
    IN  <<client, token>>

\* setup_credentials_files: both secrets retrieved from Secret Manager (which
\* needs PROJECT_ID) and written give the two /tmp paths; any exception on
\* the way leads to the local files, both of which must exist, else
\* FileNotFoundError.
setup_credentials_files(project, in) ==
    IF project /\ in.token /\ in.client /\ in.writeToken /\ in.writeClient
    THEN <<"/tmp/client_secret.json", "/tmp/gmail_token.json">>
    ELSE IF in.localClient /\ in.localToken
    THEN <<"client_secret.json", "gmail_token.json">>
    ELSE <<"FileNotFoundError">>

\* The run resolves its credentials; without them it ends here.
Credentials(r, in) ==
    LET paths == setup_credentials_files(projectId, in)
        asked == IF secret_requested(policy, projectId)
                 THEN {"secret manager"} ELSE {}
    IN  Set(r, [runs[r] EXCEPT
                  !.pc = IF Len(paths) = 2 THEN stage_after(policy, "creds")
                         ELSE "failed",
                  !.error = IF Len(paths) = 2 THEN @ ELSE "credentials",
                  !.log = Append(@, "creds"),
                  !.calls = @ \cup asked])

SetupCredentials(r) ==
    /\ runs[r].pc = "creds"
    /\ \E in \in CredInputs : Credentials(r, in)
    /\ UNCHANGED <<cred, norm, policy, projectId, now, mailbox, table, state>>

\* bq_loader: max_date = get_max_date_from_bq(...).
\* gmail_pipeline: last_load_date = start_date.last_value, parsed.
ResolveCursor(r) ==
    /\ runs[r].pc = "cursor"
    /\ \E queryOk \in BOOLEAN :
         /\ policy = "merge" => queryOk
         /\ LET last  == IF policy = "append" THEN NoText ELSE last_value(state)
                value == IF policy = "append"
                         THEN get_max_date_from_bq(table, queryOk)
                         ELSE fromisoformat(last)
                asked == IF policy = "append" THEN {"destination query"} ELSE {}
            IN  Set(r, [runs[r] EXCEPT !.pc = stage_after(policy, "cursor"),
                                       !.last = last, !.cur = value,
                                       !.qok = queryOk, !.readNo = ReadsSoFar + 1,
                                       !.log = Append(@, "cursor"),
                                       !.calls = @ \cup asked])
    /\ UNCHANGED <<cred, norm, policy, projectId, now, mailbox, table, state>>

\* A fetch that answers a provider error with an empty result.
fetch_outcome_swallows(provider, df) ==
    IF provider # "answers" THEN "done" ELSE after_fetch(df)

\* How the fetch ends: an error of the provider (authentication, query) is
\* raised through fetch_emails and main(); else the frame is looked at.
fetch_outcome(provider, df) ==
    IF provider # "answers" THEN "failed" ELSE after_fetch(df)

\* Authenticate, build the query from the cursor and the clock, fetch, and
\* return when nothing came back.
Extract(r) ==
    /\ runs[r].pc = "extract"
    /\ \E provider \in {"auth fails", "query fails", "answers"} :
         LET q  == query_params(runs[r].cur, now)
             df == email_data(get_messages(mailbox, q))
             at == [runs[r] EXCEPT !.pc = fetch_outcome(provider, df),
                                   !.error = IF provider = "answers" THEN @
                                             ELSE "provider",
                                   !.log = Append(@, "extract"),
                                   !.calls = @ \cup {"mail provider"}]
         IN  Set(r, IF provider = "auth fails" THEN at
                    ELSE IF provider = "query fails"
                    THEN [at EXCEPT !.end_date = now, !.q = q]
                    ELSE [at EXCEPT !.end_date = now, !.q = q, !.batch = df])
    /\ UNCHANGED <<cred, norm, policy, projectId, now, mailbox, table, state>>

\* bq_loader.load_to_bigquery up to the submission of the load job: the list
\* columns are normalized (normalize_append, which never raises), the dates
\* are coerced, the job is submitted.
\* gmail_pipeline: the list columns are normalized (normalize_merge, which
\* never raises), the frame is yielded, filtered by the incremental, checked
\* against the frozen contract and handed to the load step.
Load(r) ==
    /\ runs[r].pc = "load"
    /\ LET df == IF policy = "append" THEN runs[r].batch
                 ELSE incremental_filter(runs[r].batch, runs[r].last)
           raises == IF policy = "append" THEN to_datetime_raises(df)
                     ELSE contract_violated(df)
       IN  Set(r, IF raises
                  THEN [runs[r] EXCEPT !.pc = "failed", !.error = "date",
                                       !.log = Append(@, "normalize")]
                  ELSE [runs[r] EXCEPT !.pc = "wait", !.job = "running",
                                       !.rows = to_datetime(df),
                                       !.log = @ \o <<"normalize", "commit">>,
                                       !.calls = @ \cup {"destination write"}])
    /\ UNCHANGED <<cred, norm, policy, projectId, now, mailbox, table, state>>

\* The destination runs the job: all of its rows are written, or none.
JobFinish(r) ==
    /\ runs[r].job = "running"
    /\ \E jobOk \in BOOLEAN :
         IF jobOk
         THEN /\ Set(r, [runs[r] EXCEPT !.job = "ok"])
              /\ IF policy = "append"
                 THEN /\ table' = write_append(table, runs[r].rows)
                      /\ state' = state
                 ELSE /\ table' = write_merge(table, runs[r].rows)
                      /\ state' = advance_state(state, runs[r].rows)
         ELSE /\ Set(r, [runs[r] EXCEPT !.job = "error"])
              /\ UNCHANGED <<table, state>>
    /\ UNCHANGED <<cred, norm, policy, projectId, now, mailbox>>

\* job.result() / pipeline.run returns or raises once the job has ended.
WaitResult(r) ==
    /\ runs[r].pc = "wait"
    /\ job_ended(runs[r].job)
    /\ Set(r, [runs[r] EXCEPT
                  !.pc = IF runs[r].job = "error" THEN "failed" ELSE "done",
                  !.error = IF runs[r].job = "error" THEN "job" ELSE @])
    /\ UNCHANGED <<cred, norm, policy, projectId, now, mailbox, table, state>>

Next ==
    \/ Tick
    \/ Arrive
    \/ \E r \in Runs : StartRun(r)
    \/ \E r \in Runs : SetupCredentials(r)
    \/ \E r \in Runs : ResolveCursor(r)
    \/ \E r \in Runs : Extract(r)
    \/ \E r \in Runs : Load(r)
    \/ \E r \in Runs : JobFinish(r)
    \/ \E r \in Runs : WaitResult(r)

Spec == Init /\ [][Next]_vars

\* The scheduler starts a run only when no other run is in progress.
StartRunSeq(r) ==
    /\ \A o \in Runs : ~Active(o)
    /\ StartRun(r)

NextSeq ==
    \/ Tick
    \/ Arrive
    \/ \E r \in Runs : StartRunSeq(r)
    \/ \E r \in Runs : SetupCredentials(r)
    \/ \E r \in Runs : ResolveCursor(r)
    \/ \E r \in Runs : Extract(r)
    \/ \E r \in Runs : Load(r)
    \/ \E r \in Runs : JobFinish(r)
    \/ \E r \in Runs : WaitResult(r)

SpecSeq == InitSeq /\ [][NextSeq]_vars

(* ----------------- normalization of one column value ------------------ *)
InitNorm ==
    /\ norm \in {[raw |-> v, path |-> "none", out |-> NotNormalized] : v \in SourceValues}
    /\ cred = NoCred
    /\ policy = "append"
    /\ projectId = TRUE
    /\ now = StartNow
    /\ mailbox = {}
    /\ table = EmptyBag
    /\ state = NoText
    /\ runs = [r \in 1..MaxRuns |-> IdleRun]

\* df[col].apply(...) of load_to_bigquery on one value.
NormalizeAppend ==
    /\ norm.path = "none"
    /\ norm' = [norm EXCEPT !.path = "append", !.out = normalize_append(norm.raw)]
    /\ UNCHANGED <<cred, policy, projectId, now, mailbox, table, state, runs>>

\* df[col].apply(...) of fetch_gmail_resource on one value.
NormalizeMerge ==
    /\ norm.path = "none"
    /\ norm' = [norm EXCEPT !.path = "merge", !.out = normalize_merge(norm.raw)]
    /\ UNCHANGED <<cred, policy, projectId, now, mailbox, table, state, runs>>

NextNorm == NormalizeAppend \/ NormalizeMerge

SpecNorm == InitNorm /\ [][NextNorm]_vars

(* ------------- one run with its credential resolution kept ----------- *)
SetupCredentialsSeen(r) ==
    /\ runs[r].pc = "creds"
    /\ \E in \in CredInputs :
         /\ Credentials(r, in)
         /\ cred' = [seen |-> TRUE, in |-> in,
                     out |-> setup_credentials_files(projectId, in)]
    /\ UNCHANGED <<norm, policy, projectId, now, mailbox, table, state>>

InitCreds == InitWith(1)

NextCreds ==
    \/ \E r \in Runs : StartRun(r)
    \/ \E r \in Runs : SetupCredentialsSeen(r)
    \/ \E r \in Runs : ResolveCursor(r)
    \/ \E r \in Runs : Extract(r)
    \/ \E r \in Runs : Load(r)
    \/ \E r \in Runs : JobFinish(r)
    \/ \E r \in Runs : WaitResult(r)

SpecCreds == InitCreds /\ [][NextCreds]_vars

(* ------- one run up to its query, from any stored cursor ------------- *)
\* The cursors a destination may hold when a run starts: none, the start of
\* any day up to today, and for the incremental state a text that is no ISO
\* date (the case the resource's except ValueError is written for).
CursorTimes == {d * SlotsPerDay : d \in 0..StartDay}

InitWindow ==
    /\ norm = NoNorm
    /\ cred = NoCred
    /\ policy \in {"append", "merge"}
    /\ projectId \in BOOLEAN
    /\ now = StartNow
    /\ mailbox = {}
    /\ \/ /\ state = NoText
          /\ table = EmptyBag
       \/ \E t \in CursorTimes :
            /\ state = IF policy = "merge" THEN IsoText(t) ELSE NoText
            /\ table = SetToBag({[id |-> 1, date |-> t]})
       \/ /\ policy = "merge"
          /\ state = RawText
          /\ table = EmptyBag
    /\ runs = [r \in {1} |-> IdleRun]

NextWindow ==
    \/ Tick
    \/ \E r \in Runs : StartRun(r)
    \/ \E r \in Runs : SetupCredentials(r)
    \/ \E r \in Runs : ResolveCursor(r)
    \/ \E r \in Runs : Extract(r)

SpecWindow == InitWindow /\ [][NextWindow]_vars

TypeOK ==
    /\ policy \in {"append", "merge"}
    /\ now \in StartNow..(StartNow + MaxTicks)
    /\ \A r \in Runs : runs[r].pc \in
          {"idle", "creds", "cursor", "extract", "load", "wait", "done", "failed"}

(* ====================================================================== *)
(*                              properties                                *)
(* ====================================================================== *)
RowsOf(i) == {row \in BagToSet(table) : row.id = i}

\* The number of rows of the table that carry message id i.
CountOf(i) == BagCardinality([row \in RowsOf(i) |-> table[row]])

Committed(r) == runs[r].job = "ok"

RowIds(r) == {row.id : row \in runs[r].rows}

\* Two runs were in progress at the same time.
Simultaneous(a, b) == a \in runs[b].with \/ b \in runs[a].with

\* C1: under the merge policy the destination table never holds more than
\* one row for a message id, however many runs have merged that id.
C1_MergeOneRowPerId ==
    policy = "merge" => \A i \in MsgIds : CountOf(i) <= 1

\* Two different runs have each merged a row with the same id.
C1_Witness ==
    /\ policy = "merge"
    /\ \E a, b \in Runs :
         /\ a # b /\ Committed(a) /\ Committed(b)
         /\ RowIds(a) \cap RowIds(b) # {}

\* C6: under the append policy the number of rows with a given id equals the
\* number of committed runs whose batch held that id: twice for a message
\* fetched by two runs, once for a message fetched by one.
C6_AppendCountsOverlap ==
    policy = "append" =>
        \A i \in MsgIds :
            CountOf(i) = Cardinality({r \in Runs : Committed(r) /\ i \in RowIds(r)})

\* Two committed append runs share one message and differ in another.
C6_Witness ==
    /\ policy = "append"
    /\ \E a, b \in Runs :
         /\ a # b /\ Committed(a) /\ Committed(b)
         /\ \E i \in RowIds(a) \cap RowIds(b) : CountOf(i) = 2
         /\ \E i \in RowIds(b) \ RowIds(a) : CountOf(i) = 1

\* C7: when two runs overlap in time and both commit, the merge policy keeps
\* one row for every id either wrote, and the append policy holds at least
\* two rows for every id both wrote.
C7_SimultaneousRuns ==
    \A a, b \in Runs :
        (a # b /\ Simultaneous(a, b) /\ Committed(a) /\ Committed(b)) =>
            /\ policy = "merge" => \A i \in RowIds(a) \cup RowIds(b) : CountOf(i) = 1
            /\ policy = "append" => \A i \in RowIds(a) \cap RowIds(b) : CountOf(i) >= 2

\* Two runs that both read the cursor before either wrote have both
\* committed a row for the same id.
C7_Witness ==
    \E a, b \in Runs :
        /\ a # b /\ Simultaneous(a, b) /\ Committed(a) /\ Committed(b)
        /\ runs[a].cur = runs[b].cur
        /\ RowIds(a) \cap RowIds(b) # {}

(* ------------------------------- C5 ----------------------------------- *)
\* The day number of a calendar date, counted from the table of month
\* lengths (the inverse of strftime on days).
DaysBeforeMonth == <<0, 31, 59, 90, 120, 151, 181, 212, 243, 273, 304, 334>>

LeapDaysBefore(y, m) ==
    Cardinality({k \in EpochYear..(y - 1) : IsLeap(k)})
        + (IF m > 2 /\ IsLeap(y) THEN 1 ELSE 0)

DayNumber(ymd) ==
    (365 * (ymd[1] - EpochYear) + LeapDaysBefore(ymd[1], ymd[2])
        + DaysBeforeMonth[ymd[2]] + ymd[3])
    - (DaysBeforeMonth[EpochMonth] + EpochDom)

Queried(r) == runs[r].q # NoQuery

\* 2026-03-01T00:00:00Z and any instant of 2026-03-03, in slots.
ExampleCursor == DayNumber(<<2026, 3, 1>>) * SlotsPerDay
ExampleDay == DayNumber(<<2026, 3, 3>>)

\* C5: every query a run issues has `after` = the calendar day of the run's
\* cursor, or of now - 5 days when it has none, and `before` = the calendar
\* day after now; cursor 2026-03-01T00:00 and now 2026-03-03 give
\* 2026/03/01 and 2026/03/04.
C5_WindowFromCursor ==
    \A r \in Runs :
        Queried(r) =>
            /\ runs[r].cur # None =>
                  DayNumber(runs[r].q.after) = DayOf(runs[r].cur)
            /\ runs[r].cur = None =>
                  DayNumber(runs[r].q.after) = DayOf(runs[r].end_date) - days_back
            /\ DayNumber(runs[r].q.before) = DayOf(runs[r].end_date) + 1
            /\ (runs[r].cur = ExampleCursor /\ DayOf(runs[r].end_date) = ExampleDay) =>
                  /\ runs[r].q.after = <<2026, 3, 1>>
                  /\ runs[r].q.before = <<2026, 3, 4>>

\* A run queried with cursor 2026-03-01T00:00 on 2026-03-03.
C5_Witness ==
    \E r \in Runs :
        /\ Queried(r)
        /\ runs[r].cur = ExampleCursor
        /\ DayOf(runs[r].end_date) = ExampleDay

(* ------------------------------- C8 ----------------------------------- *)
FetchedNothing(r) == Queried(r) /\ runs[r].pc # "failed" /\ runs[r].batch = {}

\* C8: a run whose fetch returned no message has ended normally without
\* submitting a write, and the step in which it learnt so left the table
\* and the cursor as they were.
C8_EmptyFetchIsNoOp ==
    /\ [](\A r \in Runs :
            FetchedNothing(r) =>
                runs[r].pc = "done" /\ runs[r].job = "none" /\ runs[r].rows = {})
    /\ [][\A r \in Runs :
            (~Queried(r) /\ FetchedNothing(r)') => (table' = table /\ state' = state)]_vars

\* A run has ended after a fetch that returned nothing.
C8_Witness ==
    \E r \in Runs : FetchedNothing(r) /\ runs[r].pc = "done"

(* ------------------------------- C10 ---------------------------------- *)
HasBadDate(r) == \E rec \in runs[r].batch : rec.date.k # "iso"

\* C10: a run whose batch holds a record with an unparseable date never
\* submits a write: it stops at normalization and fails, with no row of
\* the batch written.
C10_BadDateFailsRun ==
    \A r \in Runs :
        HasBadDate(r) =>
            /\ runs[r].pc \in {"load", "failed"}
            /\ runs[r].job = "none"
            /\ runs[r].rows = {}

\* A run has failed on a batch that holds a good record next to the bad one.
C10_Witness ==
    \E r \in Runs :
        /\ HasBadDate(r)
        /\ \E rec \in runs[r].batch : rec.date.k = "iso"
        /\ runs[r].pc = "failed"

(* ------------------------------- C4 ----------------------------------- *)
\* The cursor the next run would resolve.
Cursor == IF policy = "append" THEN get_max_date_from_bq(table, TRUE)
          ELSE fromisoformat(last_value(state))

\* C4: a run that went through a commit ends normally only once its write
\* job has completed, a run that failed has written nothing, and the table
\* and the cursor change only in the step in which the destination
\* completes a job the run is waiting for: never in a failing step.
C4_CursorAfterAcknowledgment ==
    /\ [](\A r \in Runs :
            /\ (runs[r].pc = "done" /\ runs[r].batch # {}) => runs[r].job = "ok"
            /\ runs[r].pc = "failed" => runs[r].job # "ok"
            /\ runs[r].job = "running" => runs[r].pc = "wait")
    /\ [][(table' # table \/ state' # state \/ Cursor' # Cursor) =>
            \E r \in Runs :
                /\ runs[r].pc = "wait" /\ runs[r].job = "running"
                /\ runs'[r].pc = "wait" /\ runs'[r].job = "ok"]_vars
    /\ [][\A r \in Runs :
            (runs[r].pc # "failed" /\ runs'[r].pc = "failed") =>
                (table' = table /\ state' = state /\ Cursor' = Cursor)]_vars

\* One run has failed at its commit and another has committed.
C4_Witness ==
    \E a, b \in Runs :
        /\ runs[a].pc = "failed" /\ runs[a].job = "error"
        /\ runs[b].pc = "done" /\ runs[b].job = "ok"
        /\ Cursor # None

(* ------------------------------- C3 ----------------------------------- *)
\* Run a read its cursor before run b read its own.
ReadBefore(a, b) == 0 < runs[a].readNo /\ runs[a].readNo < runs[b].readNo

\* C3 as stated: no run reads a cursor smaller than the one an earlier run
\* read, None counting as smaller than every instant.
C3_Original ==
    \A a, b \in Runs : ReadBefore(a, b) => runs[b].cur >= runs[a].cur

\* C3, amended: the cursor kept by the destination never decreases, and of
\* two runs whose cursor query succeeded the later one never reads a
\* smaller cursor than the earlier one.
C3_CursorMonotone ==
    /\ [](\A a, b \in Runs :
            (ReadBefore(a, b) /\ runs[a].qok /\ runs[b].qok) =>
                runs[b].cur >= runs[a].cur)
    /\ [][Cursor' >= Cursor]_vars

\* A later run has read a cursor that a commit had moved forward since an
\* earlier run read it.
C3_Witness ==
    \E a, b \in Runs :
        /\ ReadBefore(a, b) /\ runs[a].qok /\ runs[b].qok
        /\ runs[a].cur # None
        /\ runs[b].cur > runs[a].cur

(* ------------------------------- C2 ----------------------------------- *)
\* Run b is the run that follows run a, and a failed at extraction or commit
\* (after it had built its query).
RetryOf(a, b) ==
    /\ b = a + 1
    /\ runs[a].pc = "failed" /\ Queried(a)
    /\ runs[b].readNo > 0

Succeeded(b) == runs[b].pc = "done" /\ Committed(b)

\* The messages the mailbox held before run b queried it.
HeldBefore(b) == {m \in mailbox : m.at < runs[b].end_date}

InWindow(m, q) ==
    DateLeq(q.after, strftime(m.at)) /\ DateLess(strftime(m.at), q.before)

\* C2 as stated: the run after a failed run starts its window no later than
\* the failed run did, and once it has succeeded every message dated (and
\* received) on or after the failed run's start day is in the destination.
C2_Original ==
    \A a, b \in Runs :
        (RetryOf(a, b) /\ Succeeded(b)) =>
            /\ DateLeq(runs[b].q.after, runs[a].q.after)
            /\ \A m \in HeldBefore(b) :
                  (m.date = IsoText(m.at) /\ DateLeq(runs[a].q.after, strftime(m.at)))
                      => CountOf(m.id) >= 1

\* C2, amended: the run after a failed run resolves the cursor the failed
\* run resolved (when both cursor queries succeeded); with a cursor its
\* window starts on the failed run's start day, without one it starts
\* days_back days before its own clock; and once it has succeeded, every
\* message the mailbox held that was received on a day of its own window
\* (merge: and dated at or after the cursor) is in the destination.
C2_RetryCoversItsWindow ==
    \A a, b \in Runs :
        RetryOf(a, b) =>
            /\ (runs[a].qok /\ runs[b].qok) => runs[b].cur = runs[a].cur
            /\ (Queried(b) /\ runs[b].cur # None /\ runs[b].cur = runs[a].cur) =>
                  runs[b].q.after = runs[a].q.after
            /\ (Queried(b) /\ runs[b].cur = None) =>
                  DayNumber(runs[b].q.after) = DayOf(runs[b].end_date) - days_back
            /\ Succeeded(b) =>
                  \A m \in HeldBefore(b) :
                      (/\ InWindow(m, runs[b].q)
                       /\ policy = "merge" => m.date.t >= runs[b].cur)
                          => CountOf(m.id) >= 1

\* A run failed with a cursor, the clock passed midnight, and the next run
\* has succeeded from the same start day.
C2_Witness ==
    \E a, b \in Runs :
        /\ RetryOf(a, b) /\ Succeeded(b)
        /\ runs[a].cur # None
        /\ DayOf(runs[b].end_date) > DayOf(runs[a].end_date)
        /\ runs[b].q.after = runs[a].q.after

(* ------------------------------- C9 ----------------------------------- *)
Normalized(path) == norm.path = path

\* The strings of a list joined from its last element backwards.
RECURSIVE JoinedFromEnd(_)
JoinedFromEnd(xs) ==
    IF Len(xs) = 0 THEN ""
    ELSE IF Len(xs) = 1 THEN str(xs[1])
    ELSE JoinedFromEnd(SubSeq(xs, 1, Len(xs) - 1)) \o ", " \o str(xs[Len(xs)])

KeepsEveryElement ==
    /\ norm.out.k = "list"
    /\ Len(norm.out.l) = Len(norm.raw.xs)
    /\ \A i \in 1..Len(norm.raw.xs) : norm.out.l[i] = str(norm.raw.xs[i])

\* C9 as stated: a value that is absent or no sequence becomes the empty
\* list (append) or the empty string (merge), never null; a sequence keeps
\* its elements as strings (append) or is joined into one string (merge).
C9_Original ==
    /\ Normalized("append") =>
          IF isinstance_list_tuple(norm.raw) THEN KeepsEveryElement
          ELSE norm.out = ListOut(<<>>)
    /\ Normalized("merge") =>
          IF isinstance_list_tuple(norm.raw)
          THEN norm.out = TextOut(JoinedFromEnd(norm.raw.xs))
          ELSE norm.out = TextOut("")

\* C9, amended: on the append path as stated; on the merge path a sequence
\* is joined with ", ", None stays null, and any other value that is no
\* sequence becomes its own string.
C9_Normalization ==
    /\ Normalized("append") =>
          IF isinstance_list_tuple(norm.raw) THEN KeepsEveryElement
          ELSE norm.out = ListOut(<<>>)
    /\ Normalized("merge") =>
          IF isinstance_list_tuple(norm.raw)
          THEN norm.out = TextOut(JoinedFromEnd(norm.raw.xs))
          ELSE IF norm.raw.t = "none" THEN norm.out.k = "null"
          ELSE norm.out = TextOut(str(norm.raw.x))

\* None has been normalized on the merge path.
C9_Witness ==
    Normalized("merge") /\ norm.raw = NoneValue /\ norm.out = NullOut

(* ---------------------------------------------------------------------- *)
TmpPaths == <<"/tmp/client_secret.json", "/tmp/gmail_token.json">>
LocalPaths == <<"client_secret.json", "gmail_token.json">>
NoPaths == <<"FileNotFoundError">>

Retrieved == projectId /\ cred.in.token /\ cred.in.client
Written == cred.in.writeToken /\ cred.in.writeClient
LocalFound == cred.in.localClient /\ cred.in.localToken

\* A run that asked for credentials and got none has ended as failed without
\* a call to the mail provider and without a write.
AbortedWithoutCredentials ==
    \A r \in Runs :
        /\ runs[r].pc = "failed"
        /\ "mail provider" \notin runs[r].calls
        /\ "destination write" \notin runs[r].calls
        /\ runs[r].job = "none"
        /\ table = EmptyBag

\* C11 as stated: both secrets retrieved give the two temporary paths; any
\* remote failure gives the two local files when both exist; with neither
\* the resolution fails and the run ends before extraction and write.
C11_Original ==
    cred.seen =>
        /\ Retrieved => cred.out = TmpPaths
        /\ ~Retrieved /\ LocalFound => cred.out = LocalPaths
        /\ ~Retrieved /\ ~LocalFound =>
               cred.out = NoPaths /\ AbortedWithoutCredentials

\* C11, amended: both secrets retrieved and both temporary files written
\* give the two temporary paths; any failure on the way, of a retrieval or
\* of a write, gives the two local files when both exist; with neither the
\* resolution fails and the run ends before extraction and write.
C11_CredentialResolution ==
    cred.seen =>
        /\ Retrieved /\ Written => cred.out = TmpPaths
        /\ ~(Retrieved /\ Written) /\ LocalFound => cred.out = LocalPaths
        /\ ~(Retrieved /\ Written) /\ ~LocalFound =>
               cred.out = NoPaths /\ AbortedWithoutCredentials

C11_Witness ==
    /\ cred.seen /\ ~Retrieved /\ ~LocalFound
    /\ cred.out = NoPaths
    /\ \E r \in Runs : runs[r].pc = "failed" /\ runs[r].calls \subseteq {"secret manager"}

\* C20: the resolver returns the two temporary paths (only when both secrets
\* were retrieved and written), the two local paths (only when both local
\* files exist) or fails; when one secret fails nothing of what it returns
\* is a temporary path.
C20_NoMixedPair ==
    cred.seen =>
        /\ cred.out \in {TmpPaths, LocalPaths, NoPaths}
        /\ cred.out = TmpPaths => Retrieved /\ Written
        /\ cred.out = LocalPaths => LocalFound
        /\ (cred.in.token # cred.in.client) =>
               \A i \in 1..Len(cred.out) : cred.out[i] \notin {TmpPaths[1], TmpPaths[2]}

C20_Witness ==
    /\ cred.seen /\ projectId
    /\ cred.in.token /\ ~cred.in.client /\ cred.in.writeToken
    /\ cred.out = LocalPaths

\* C13 as stated: without PROJECT_ID no run of either entry point makes any
\* external call.
C13_Original ==
    ~projectId => \A r \in Runs : runs[r].calls = {}

\* C13, amended: without PROJECT_ID no run asks Secret Manager; a run of
\* bq_loader makes no external call at all and executes no stage; a run of
\* gmail_pipeline goes on with the local credential files.
C13_NoProjectId ==
    ~projectId =>
        \A r \in Runs :
            /\ "secret manager" \notin runs[r].calls
            /\ policy = "append" =>
                   /\ runs[r].calls = {} /\ runs[r].log = <<>>
                   /\ runs[r].pc \in {"idle", "done"}
                   /\ runs[r].job = "none"

C13_Witness ==
    /\ ~projectId /\ policy = "append"
    /\ \E r \in Runs : runs[r].pc = "done" /\ runs[r].calls = {}

(* ---------------------------------------------------------------------- *)
\* Run r reads its cursor in this step.
ReadsCursor(r) == runs[r].readNo = 0 /\ runs'[r].readNo > 0

DefaultWindow(r) ==
    runs[r].q.after = strftime(timedelta(runs[r].end_date, 0 - days_back))

\* C12: in the append variant the step that resolves the cursor always
\* leads on to extraction; it yields None when the MAX(date) query fails
\* (the table may not exist) or the table is empty, and the greatest date of
\* the table otherwise; a run without a cursor queries the default window.
C12_CursorNeverAborts ==
    /\ [][\A r \in Runs :
            policy = "append" /\ ReadsCursor(r) =>
                /\ runs'[r].pc = "extract"
                /\ ~runs'[r].qok \/ RowDates(table) = {} => runs'[r].cur = None
                /\ runs'[r].qok /\ RowDates(table) # {} =>
                       /\ runs'[r].cur \in RowDates(table)
                       /\ \A d \in RowDates(table) : d <= runs'[r].cur]_vars
    /\ [](\A r \in Runs :
            policy = "append" /\ runs[r].cur = None /\ runs[r].q # NoQuery =>
                DefaultWindow(r))

C12_Witness ==
    /\ policy = "append" /\ table # EmptyBag
    /\ \E r \in Runs :
         ~runs[r].qok /\ runs[r].cur = None /\ runs[r].q # NoQuery /\ DefaultWindow(r)

(* ---------------------------------------------------------------------- *)
\* bq_loader was started without its required environment value.
MissingConfiguration(r) ==
    policy = "append" /\ ~projectId /\ runs[r].pc # "idle"

\* C14 as stated: a run ends normally only after a commit or after a fetch
\* that returned nothing, and a run with missing configuration does not end
\* normally.
C14_Original ==
    \A r \in Runs :
        /\ runs[r].pc = "done" => Committed(r) \/ FetchedNothing(r)
        /\ MissingConfiguration(r) => runs[r].pc # "done"

(* ---------------------------------------------------------------------- *)
\* The rows of run r's batch that the incremental passes on to the contract.
PassedOn(r) == incremental_filter(runs[r].batch, runs[r].last)

ViolatesContract(r) == \E rec \in PassedOn(r) : rec.date.k # "iso"

\* C15: under the merge policy a run with a row that violates the declared
\* column contract submits no write and fails, the step in which a run fails
\* leaves the table as it was, and every row of the table has an id and a
\* date that is a timestamp.
C15_FrozenContract ==
    /\ [](policy = "merge" =>
            /\ \A row \in BagToSet(table) : row.id \in MsgIds /\ row.date # None
            /\ \A r \in Runs :
                   ViolatesContract(r) =>
                       /\ runs[r].job = "none" /\ runs[r].rows = {}
                       /\ runs[r].pc \in {"load", "failed"})
    /\ [][\A r \in Runs :
            policy = "merge" /\ runs[r].pc = "load" /\ runs'[r].pc = "failed" =>
                table' = table /\ state' = state]_vars

C15_Witness ==
    /\ policy = "merge" /\ table # EmptyBag
    /\ \E r \in Runs :
         ViolatesContract(r) /\ runs[r].pc = "failed" /\ runs[r].job = "none"

(* ---------------------------------------------------------------------- *)
\* The mail provider refused the authentication or the query of run r.
ExtractionError(r) == runs[r].error = "provider"

\* C16: a run whose extraction met an error of the provider has failed, with
\* no batch, no write submitted and no row written; the step in which the
\* error occurs leaves the table and the cursor as they were, and the run
\* stays failed.
C16_ExtractionErrorIsFatal ==
    /\ [](\A r \in Runs :
            ExtractionError(r) =>
                /\ runs[r].pc = "failed"
                /\ runs[r].batch = {} /\ runs[r].rows = {}
                /\ runs[r].job = "none"
                /\ "destination write" \notin runs[r].calls)
    /\ [][\A r \in Runs :
            /\ ~ExtractionError(r) /\ ExtractionError(r)' =>
                   table' = table /\ state' = state
            /\ ExtractionError(r) => runs'[r] = runs[r]]_vars

C16_Witness ==
    \E r \in Runs :
        /\ ExtractionError(r) /\ Queried(r)
        /\ get_messages(mailbox, runs[r].q) # {}
        /\ table = EmptyBag

(* ---------------------------------------------------------------------- *)
IsPrefix(a, b) == Len(a) <= Len(b) /\ \A i \in 1..Len(a) : a[i] = b[i]

CredentialsFirst == <<"creds", "cursor", "extract", "normalize", "commit">>
CursorFirst == <<"cursor", "creds", "extract", "normalize", "commit">>

\* C17 as stated: in either entry point the stages of a run are executed in
\* the order credentials, cursor, extract, normalize, commit.
C17_Original ==
    \A r \in Runs : IsPrefix(runs[r].log, CredentialsFirst)

\* C17, amended: bq_loader executes credentials, cursor, extract, normalize,
\* commit in this order; gmail_pipeline reads the cursor first and resolves
\* the credentials after it. In both, a stage starts only after the one
\* before it, the cursor is read once and before the query is issued, and a
\* write is submitted only with the rows of the batch the extraction
\* returned.
C17_StageOrder ==
    /\ [](\A r \in Runs :
            /\ IsPrefix(runs[r].log,
                        IF policy = "append" THEN CredentialsFirst ELSE CursorFirst)
            /\ Queried(r) => runs[r].readNo > 0
            /\ runs[r].job # "none" =>
                   /\ Queried(r)
                   /\ {row.id : row \in runs[r].rows} \subseteq
                          {rec.id : rec \in runs[r].batch})
    /\ [][\A r \in Runs :
            /\ IsPrefix(runs[r].log, runs'[r].log)
            /\ runs[r].readNo > 0 =>
                   /\ runs'[r].readNo = runs[r].readNo
                   /\ runs'[r].cur = runs[r].cur]_vars

C17_Witness ==
    /\ policy = "merge"
    /\ \E r \in Runs : runs[r].log = CursorFirst /\ Committed(r) /\ runs[r].rows # {}

(* ---------------------------------------------------------------------- *)
LookbackDay(r) == strftime(timedelta(runs[r].end_date, 0 - days_back))

IsCalendarDay(ymd) ==
    /\ ymd[1] >= EpochYear /\ ymd[2] \in 1..12
    /\ ymd[3] \in 1..DaysInMonth(ymd[1], ymd[2])

\* C18: every query carries an `after` that is a calendar day. Without a
\* cursor the append variant starts days_back days before the clock; the
\* merge variant starts at 2026-02-23 when it has no state and days_back
\* days before the clock when its last_value is no ISO date.
C18_BoundedWithoutCursor ==
    \A r \in Runs :
        Queried(r) =>
            /\ IsCalendarDay(runs[r].q.after)
            /\ policy = "append" /\ runs[r].cur = None =>
                   runs[r].q.after = LookbackDay(r)
            /\ policy = "merge" /\ state = NoText =>
                   runs[r].q.after = <<EpochYear, EpochMonth, EpochDom>>
            /\ policy = "merge" /\ state = RawText =>
                   runs[r].cur = None /\ runs[r].q.after = LookbackDay(r)

C18_Witness ==
    /\ policy = "merge" /\ state = RawText
    /\ \E r \in Runs : Queried(r) /\ runs[r].q.after = LookbackDay(r)

(* ---------------------------------------------------------------------- *)
\* C19 as stated: the window of every query is well-formed and non-empty,
\* its `after` day strictly earlier than its `before` day, whatever dates
\* have been committed.
C19_Original ==
    \A r \in Runs : Queried(r) => DateLess(runs[r].q.after, runs[r].q.before)
====
